---- MODULE Spec2Model ----
(***************************************************************************)
(* A model of watermark_cli.py: the photo date-watermark command line      *)
(* tool.  Strings that the program takes apart (colour expressions, raw    *)
(* EXIF date values) are sequences of one-character strings; paths are     *)
(* sequences of path components.                                           *)
(***************************************************************************)
EXTENDS Integers, Sequences, FiniteSets, TLC

VARIABLES pc, inputPath, files, dirs, outRoot, sourceRoot, walkStack,
          curFiles, count, listed, handed, skipped, saved, errored,
          written, startFiles, runs, color_rgba, fn, arg, ret

vars == <<pc, inputPath, files, dirs, outRoot, sourceRoot, walkStack,
          curFiles, count, listed, handed, skipped, saved, errored,
          written, startFiles, runs, color_rgba, fn, arg, ret>>

mainVars == <<pc, inputPath, files, dirs, outRoot, sourceRoot, walkStack,
              curFiles, count, listed, handed, skipped, saved, errored,
              written, startFiles, runs, color_rgba>>

(***************************************************************************)
(* Bounds of the model.                                                    *)
(***************************************************************************)
MaxRuns == 2
MaxImg == 6
MaxText == 7
MaxMargin == 3
MaxFields == 4

(***************************************************************************)
(* Program constants.                                                      *)
(***************************************************************************)
SUPPORTED_EXTS == {".jpg", ".jpeg", ".png", ".tif", ".tiff"}
DefaultMargin == 10
ShadowAlphaCap == 120

(***************************************************************************)
(* Character-level helpers: Python's str.strip, str.split and int().       *)
(***************************************************************************)
None == <<"<None>">>
Pending == <<"<pending>">>

Min(a, b) == IF a < b THEN a ELSE b
Max(a, b) == IF a > b THEN a ELSE b
Abs(n) == IF n < 0 THEN -n ELSE n

DigitVal ==
  [c \in {"0","1","2","3","4","5","6","7","8","9",
          "a","b","c","d","e","f","A","B","C","D","E","F"} |->
     CASE c = "0" -> 0 [] c = "1" -> 1 [] c = "2" -> 2 [] c = "3" -> 3
       [] c = "4" -> 4 [] c = "5" -> 5 [] c = "6" -> 6 [] c = "7" -> 7
       [] c = "8" -> 8 [] c = "9" -> 9
       [] c \in {"a","A"} -> 10 [] c \in {"b","B"} -> 11
       [] c \in {"c","C"} -> 12 [] c \in {"d","D"} -> 13
       [] c \in {"e","E"} -> 14 [] c \in {"f","F"} -> 15]

IsDigit(c, base) == c \in DOMAIN DigitVal /\ DigitVal[c] < base

RECURSIVE LStrip(_)
LStrip(s) == IF s # <<>> /\ Head(s) = " " THEN LStrip(Tail(s)) ELSE s

RECURSIVE RStrip(_)
RStrip(s) ==
  IF s # <<>> /\ s[Len(s)] = " " THEN RStrip(SubSeq(s, 1, Len(s) - 1)) ELSE s

Strip(s) == RStrip(LStrip(s))

\* str.split(sep) for a one-character separator: always at least one field.
RECURSIVE Split(_, _)
Split(s, sep) ==
  IF \E i \in 1..Len(s) : s[i] = sep
    THEN LET i == CHOOSE k \in 1..Len(s) :
                    s[k] = sep /\ \A j \in 1..(k - 1) : s[j] # sep
         IN  <<SubSeq(s, 1, i - 1)>> \o Split(SubSeq(s, i + 1, Len(s)), sep)
    ELSE <<s>>

\* The digits of a non-negative number, most significant first.
RECURSIVE DigitsOf(_)
DigitsOf(n) ==
  LET d == <<"0","1","2","3","4","5","6","7","8","9">>[(n % 10) + 1]
  IN  IF n < 10 THEN <<d>> ELSE DigitsOf(n \div 10) \o <<d>>

RECURSIVE Zeros(_)
Zeros(k) == IF k <= 0 THEN <<>> ELSE <<"0">> \o Zeros(k - 1)

\* format(n, "0<width>d"): the sign counts towards the width.
FormatInt(n, width) ==
  LET sgn == IF n < 0 THEN <<"-">> ELSE <<>>
      ds  == DigitsOf(Abs(n))
  IN  sgn \o Zeros(width - Len(sgn) - Len(ds)) \o ds

RECURSIVE DigitsValue(_, _, _)
DigitsValue(s, base, acc) ==
  IF s = <<>> THEN acc
  ELSE IF Head(s) = "_" THEN DigitsValue(Tail(s), base, acc)
  ELSE DigitsValue(Tail(s), base, acc * base + DigitVal[Head(s)])

\* Digits with single underscores allowed between two digits.
ValidDigits(s, base) ==
  /\ s # <<>>
  /\ IsDigit(s[1], base)
  /\ IsDigit(s[Len(s)], base)
  /\ \A i \in 1..Len(s) : IsDigit(s[i], base) \/ s[i] = "_"
  /\ \A i \in 1..(Len(s) - 1) : ~(s[i] = "_" /\ s[i + 1] = "_")

\* Python's int(s, base): surrounding whitespace is dropped, one sign is
\* accepted, base 16 accepts a 0x prefix.  ok = FALSE stands for ValueError.
ParseInt(s, base) ==
  LET t    == Strip(s)
      neg  == t # <<>> /\ Head(t) = "-"
      u    == IF t # <<>> /\ Head(t) \in {"+", "-"} THEN Tail(t) ELSE t
      pre  == base = 16 /\ Len(u) >= 2 /\ u[1] = "0" /\ u[2] \in {"x", "X"}
      v    == IF pre THEN SubSeq(u, 3, Len(u)) ELSE u
      w    == IF pre /\ v # <<>> /\ Head(v) = "_" THEN Tail(v) ELSE v
  IN  IF ValidDigits(w, base)
        THEN [ok |-> TRUE,
              val |-> IF neg THEN -DigitsValue(w, base, 0)
                             ELSE DigitsValue(w, base, 0)]
        ELSE [ok |-> FALSE, val |-> 0]

RECURSIVE Join(_, _)
Join(parts, sep) ==
  IF Len(parts) = 0 THEN <<>>
  ELSE IF Len(parts) = 1 THEN parts[1]
  ELSE parts[1] \o <<sep>> \o Join(Tail(parts), sep)

RECURSIVE Concat(_)
Concat(parts) == IF parts = <<>> THEN <<>> ELSE Head(parts) \o Concat(Tail(parts))

(***************************************************************************)
(* exif_date_text.  An image's metadata is a record                        *)
(*   [readable, dto, dt, orient]                                           *)
(* readable = FALSE: img.getexif() raises; dto / dt: the raw values of     *)
(* DateTimeOriginal (36867) and DateTime (306), None when absent;          *)
(* orient: the orientation tag, 0 when absent.                             *)
(***************************************************************************)
Truthy(v) == v # None /\ v # <<>>

ExifEmpty(tags) == tags.dto = None /\ tags.dt = None /\ tags.orient = 0

exif_date_text(tags) ==
  IF ~tags.readable \/ ExifEmpty(tags) THEN None
  ELSE
    LET raw == IF Truthy(tags.dto) THEN tags.dto ELSE tags.dt
    IN  IF ~Truthy(raw) THEN None
        ELSE
          LET date_part == Split(raw, " ")[1]
              fields    == Split(date_part, ":")
              first3    == SubSeq(fields, 1, Min(3, Len(fields)))
          IN  IF Len(first3) # 3 THEN None
              ELSE
                LET y == ParseInt(first3[1], 10)
                    m == ParseInt(first3[2], 10)
                    d == ParseInt(first3[3], 10)
                IN  IF y.ok /\ m.ok /\ d.ok
                      THEN FormatInt(y.val, 4) \o <<"-">> \o FormatInt(m.val, 2)
                             \o <<"-">> \o FormatInt(d.val, 2)
                      ELSE None

(***************************************************************************)
(* parse_color.  ImageColor_getcolor stands for Pillow's                   *)
(* ImageColor.getcolor(c, "RGBA"): colour names and the strict hex forms   *)
(* #rgb, #rgba, #rrggbb, #rrggbbaa; ok = FALSE stands for ValueError.      *)
(***************************************************************************)
AllHex(s) == \A i \in 1..Len(s) : IsDigit(s[i], 16)

HexByte(s, i) == DigitVal[s[i]] * 16 + DigitVal[s[i + 1]]
HexNibble(s, i) == DigitVal[s[i]] * 17

ImageColor_getcolor(c) ==
  IF c = <<"w","h","i","t","e">> THEN [ok |-> TRUE, rgba |-> <<255, 255, 255, 255>>]
  ELSE IF c = <<"r","e","d">> THEN [ok |-> TRUE, rgba |-> <<255, 0, 0, 255>>]
  ELSE IF c # <<>> /\ Head(c) = "#" /\ AllHex(Tail(c)) /\ Len(c) \in {4, 5, 7, 9}
    THEN LET h == Tail(c)
         IN  CASE Len(h) = 3 ->
                    [ok |-> TRUE,
                     rgba |-> <<HexNibble(h, 1), HexNibble(h, 2), HexNibble(h, 3), 255>>]
               [] Len(h) = 4 ->
                    [ok |-> TRUE,
                     rgba |-> <<HexNibble(h, 1), HexNibble(h, 2), HexNibble(h, 3),
                                HexNibble(h, 4)>>]
               [] Len(h) = 6 ->
                    [ok |-> TRUE,
                     rgba |-> <<HexByte(h, 1), HexByte(h, 3), HexByte(h, 5), 255>>]
               [] Len(h) = 8 ->
                    [ok |-> TRUE,
                     rgba |-> <<HexByte(h, 1), HexByte(h, 3), HexByte(h, 5),
                                HexByte(h, 7)>>]
  ELSE [ok |-> FALSE, rgba |-> <<>>]

White == <<255, 255, 255, 255>>

PillowOrWhite(c) ==
  LET got == ImageColor_getcolor(c)
  IN  IF got.ok
        THEN IF Len(got.rgba) = 3
               THEN <<got.rgba[1], got.rgba[2], got.rgba[3], 255>>
               ELSE got.rgba
        ELSE White

parse_color(color) ==
  LET c == Strip(color)
  IN  IF c # <<>> /\ Head(c) = "#"
        THEN LET hexstr == Tail(c)
                 p1 == ParseInt(SubSeq(hexstr, 1, 2), 16)
                 p2 == ParseInt(SubSeq(hexstr, 3, 4), 16)
                 p3 == ParseInt(SubSeq(hexstr, 5, 6), 16)
                 p4 == ParseInt(SubSeq(hexstr, 7, 8), 16)
             IN  IF Len(hexstr) = 8
                   THEN IF p1.ok /\ p2.ok /\ p3.ok /\ p4.ok
                          THEN <<p2.val, p3.val, p4.val, p1.val>>
                          ELSE PillowOrWhite(c)
                 ELSE IF Len(hexstr) = 6
                   THEN IF p1.ok /\ p2.ok /\ p3.ok
                          THEN <<p1.val, p2.val, p3.val, 255>>
                          ELSE PillowOrWhite(c)
                 ELSE PillowOrWhite(c)
        ELSE PillowOrWhite(c)

(***************************************************************************)
(* calc_position.  Python's // is floor division, as is \div.              *)
(***************************************************************************)
Positions == {"top-left", "top-right", "center", "bottom-left", "bottom-right"}

\* Variants of calc_position with a plausible slip each: the clamps left
\* out, and the centre rounded towards zero.
calc_position_unclamped(img_w, img_h, text_w, text_h, pos, margin) ==
  CASE pos = "top-left"    -> <<margin, margin>>
    [] pos = "top-right"   -> <<img_w - text_w - margin, margin>>
    [] pos = "center"      -> <<(img_w - text_w) \div 2, (img_h - text_h) \div 2>>
    [] pos = "bottom-left" -> <<margin, img_h - text_h - margin>>
    [] OTHER               -> <<img_w - text_w - margin, img_h - text_h - margin>>

TruncDiv(a, b) == IF a >= 0 THEN a \div b ELSE -((-a) \div b)

calc_position_truncating(img_w, img_h, text_w, text_h, pos, margin) ==
  CASE pos = "top-left"    -> <<margin, margin>>
    [] pos = "top-right"   -> <<Max(img_w - text_w - margin, margin), margin>>
    [] pos = "center"      -> <<TruncDiv(img_w - text_w, 2), TruncDiv(img_h - text_h, 2)>>
    [] pos = "bottom-left" -> <<margin, Max(img_h - text_h - margin, margin)>>
    [] OTHER               -> <<Max(img_w - text_w - margin, margin),
                                Max(img_h - text_h - margin, margin)>>

calc_position(img_w, img_h, text_w, text_h, pos, margin) ==
  CASE pos = "top-left"    -> <<margin, margin>>
    [] pos = "top-right"   -> <<Max(img_w - text_w - margin, margin), margin>>
    [] pos = "center"      -> <<(img_w - text_w) \div 2, (img_h - text_h) \div 2>>
    [] pos = "bottom-left" -> <<margin, Max(img_h - text_h - margin, margin)>>
    [] OTHER               -> <<Max(img_w - text_w - margin, margin),
                                Max(img_h - text_h - margin, margin)>>

(***************************************************************************)
(* Specifications of the pure functions: the inputs are drawn in the       *)
(* initial state, the one action applies the function.                     *)
(***************************************************************************)
MainIdle ==
  /\ pc = "idle" /\ inputPath = <<>> /\ files = <<>> /\ dirs = {}
  /\ outRoot = <<>> /\ sourceRoot = <<>> /\ walkStack = <<>>
  /\ curFiles = {} /\ count = 0 /\ listed = {} /\ handed = <<>>
  /\ skipped = {} /\ saved = {} /\ errored = {} /\ written = {}
  /\ startFiles = <<>> /\ runs = 0 /\ color_rgba = <<>>

Margins == (-1)..MaxMargin

InitLayout ==
  /\ MainIdle
  /\ fn = "calc_position"
  /\ arg \in [img_w : 1..MaxImg, img_h : 1..MaxImg, text_w : 0..MaxText,
               text_h : {1, MaxText}, pos : Positions, margin : Margins]
  /\ ret = Pending

CallCalcPosition ==
  /\ fn = "calc_position" /\ ret = Pending
  /\ ret' = calc_position(arg.img_w, arg.img_h, arg.text_w, arg.text_h,
                          arg.pos, arg.margin)
  /\ UNCHANGED <<mainVars, fn, arg>>

NextLayout == CallCalcPosition

SpecLayout == InitLayout /\ [][NextLayout]_vars

\* Colour expressions: '#' followed by up to MaxPairs two-character groups,
\* optionally one more character, optionally inside spaces; and names.
MaxPairs == 4

PairSet == {<<"F","F">>, <<"0","0">>, <<"8","0">>, <<"-","1">>, <<"+","F">>,
            <<" ","7">>, <<"7"," ">>, <<"G","0">>}

HexBodies == UNION {{Concat(ps) : ps \in [1..n -> PairSet]} : n \in 0..MaxPairs}

ColorNames == {<<"w","h","i","t","e">>, <<"r","e","d">>,
               <<"n","o","t","-","a","-","c","o","l","o","r">>, <<>>}

ColorInputs ==
  {<<"#">> \o b : b \in HexBodies}
    \cup {<<" ", "#">> \o b \o <<" ">> : b \in HexBodies}
    \cup {<<"#">> \o b \o <<"F">> : b \in {h \in HexBodies : Len(h) <= 2}}
    \cup ColorNames

InitColor ==
  /\ MainIdle
  /\ fn = "parse_color"
  /\ arg \in ColorInputs
  /\ ret = Pending

CallParseColor ==
  /\ fn = "parse_color" /\ ret = Pending
  /\ ret' = parse_color(arg)
  /\ UNCHANGED <<mainVars, fn, arg>>

NextColor == CallParseColor

SpecColor == InitColor /\ [][NextColor]_vars

\* Raw tag values: 1..MaxFields fields joined by ':', with or without a
\* time of day after a space; and a value that uses '/' for ':'.
FieldSet == {<<"2","0","2","3">>, <<"7">>, <<"-","7">>, <<"+","4">>, <<"x">>, <<>>}

TimeOfDay == <<" ","1","0",":","2","0",":","3","0">>
Canonical == <<"2","0","2","3",":","0","7",":","0","4">> \o TimeOfDay
Slashed == <<"2","0","2","3","/","0","7","/","0","4">>

DateSegments ==
  UNION {{Join(fs, ":") : fs \in [1..n -> FieldSet]} : n \in 1..MaxFields}

RawValues ==
  DateSegments \cup {d \o TimeOfDay : d \in DateSegments}
    \cup {Canonical, Slashed, None}

InitDate ==
  /\ MainIdle
  /\ fn = "exif_date_text"
  /\ arg \in [readable : BOOLEAN, dto : RawValues, dt : {None, Canonical},
               orient : {0}]
  /\ ret = Pending

CallExifDateText ==
  /\ fn = "exif_date_text" /\ ret = Pending
  /\ ret' = exif_date_text(arg)
  /\ UNCHANGED <<mainVars, fn, arg>>

NextDate == CallExifDateText

SpecDate == InitDate /\ [][NextDate]_vars

(***************************************************************************)
(* Paths and the file system.  files maps the path of every regular file   *)
(* to its content; dirs is the set of directories.                         *)
(***************************************************************************)
Name(p) == p[Len(p)]
Parent(p) == SubSeq(p, 1, Len(p) - 1)

IsUnder(p, root) ==
  Len(root) <= Len(p) /\ SubSeq(p, 1, Len(root)) = root

\* File names of the model, as <<stem, suffix>>, and str.lower on suffixes.
NameParts ==
  ("a.jpg" :> <<"a", ".jpg">>) @@ ("b.PNG" :> <<"b", ".PNG">>)
    @@ ("n.txt" :> <<"n", ".txt">>)

Lower(sfx) == IF sfx = ".PNG" THEN ".png" ELSE sfx

SuffixOf(name) == IF name \in DOMAIN NameParts THEN NameParts[name][2] ELSE ""
StemOf(name) == IF name \in DOMAIN NameParts THEN NameParts[name][1] ELSE name

\* Path.with_suffix
with_suffix(p, sfx) == Parent(p) \o <<StemOf(Name(p)) \o sfx>>

is_image_file(p) ==
  p \in DOMAIN files /\ Lower(SuffixOf(Name(p))) \in SUPPORTED_EXTS

\* One os.walk step: the regular files of directory d that walk_images
\* yields, and the sub-directories os.walk descends into afterwards.
walk_images_files(d) ==
  {p \in DOMAIN files : Parent(p) = d /\ is_image_file(p)}

walk_subdirs(d) == {q \in dirs : Len(q) > 0 /\ Parent(q) = d}

\* mkdir(parents=True, exist_ok=True)
MkdirParents(d) == {SubSeq(d, 1, k) : k \in 1..Len(d)}

\* A variant of ensure_output_root that puts the output root next to the
\* base directory.
ensure_output_root_sibling(input_path) ==
  LET base_dir == IF input_path \in DOMAIN files THEN Parent(input_path)
                                                 ELSE input_path
  IN  Parent(base_dir) \o <<Name(base_dir) \o "_watermark">>

ensure_output_root(input_path) ==
  LET base_dir == IF input_path \in DOMAIN files THEN Parent(input_path)
                                                 ELSE input_path
  IN  base_dir \o <<Name(base_dir) \o "_watermark">>

(***************************************************************************)
(* Images.  A decoded file is a record                                     *)
(*   [decodable, fmt, mode, w, h, tags, infoExif, fail, wm]                *)
(* infoExif: im.info holds the raw "exif" block; fail: the stage at which  *)
(* handling this file raises, "none" if it does not; wm: the watermark     *)
(* burnt into the pixels, <<>> if none.                                    *)
(***************************************************************************)
NoTags == [readable |-> TRUE, dto |-> None, dt |-> None, orient |-> 0]

\* A variant of exif_transpose that leaves the pixels as stored.
exif_transpose_skipped(img) == img

\* ImageOps.exif_transpose: orientations 5..8 exchange width and height.
exif_transpose(img) ==
  IF img.tags.readable /\ img.tags.orient \in 5..8
    THEN [img EXCEPT !.w = img.h, !.h = img.w]
    ELSE img

\* draw.textbbox: the extent of the text in the font.
TextBBox(text, font) == <<font.cw * Len(text), font.ch>>

draw_watermark(img0, text, font, rgba, position) ==
  LET img       == exif_transpose(img0)
      orig_mode == img.mode
      base      == [img EXCEPT !.mode = "RGBA"]
      bbox      == TextBBox(text, font)
      xy        == calc_position(base.w, base.h, bbox[1], bbox[2], position,
                                 DefaultMargin)
      shadow    == <<0, 0, 0, Min(ShadowAlphaCap, rgba[4])>>
      out       == [base EXCEPT !.wm = [text |-> text, x |-> xy[1], y |-> xy[2],
                                        fill |-> rgba, shadow |-> shadow]]
  IN  [out EXCEPT !.mode = orig_mode]

\* A variant of the except clause that absorbs decode failures only.
CaughtDecodeOnly(stage) == stage = "decode"

\* The except clause of process_file: which failing stages it absorbs.
Caught(stage) == TRUE

\* process_file, as the effect it has: outcome is "skip", "done" or "error"
\* (or "raise" when the failure leaves process_file), newdirs the
\* directories it creates, out_path / out_rec the file it writes.
process_file(in_file, out_root, source_root, font, rgba, position) ==
  LET im       == files[in_file]
      text     == exif_date_text(im.tags)
      out_img  == draw_watermark(im, text, font, rgba, position)
      rel_path == IF IsUnder(in_file, source_root)
                    THEN SubSeq(in_file, Len(source_root) + 1, Len(in_file))
                    ELSE <<Name(in_file)>>
      out_path0 == out_root \o rel_path
      made     == MkdirParents(Parent(out_path0))
      fmt      == IF im.fmt = "" THEN "PNG" ELSE im.fmt
      attach   == im.infoExif /\ fmt \in {"JPEG", "TIFF"}
      out_path == with_suffix(out_path0, SuffixOf(Name(in_file)))
      out_rec  == [out_img EXCEPT !.fmt = fmt,
                                  !.tags = IF attach THEN im.tags ELSE NoTags,
                                  !.infoExif = attach,
                                  !.fail = "none"]
      Fail(stage, ds) ==
        [outcome |-> IF Caught(stage) THEN "error" ELSE "raise",
         newdirs |-> ds, out_path |-> <<>>, out_rec |-> <<>>]
  IN  IF ~im.decodable THEN Fail("decode", {})
      ELSE IF im.fail = "extract" THEN Fail("extract", {})
      ELSE IF ~Truthy(text)
        THEN [outcome |-> "skip", newdirs |-> {}, out_path |-> <<>>,
              out_rec |-> <<>>]
      ELSE IF im.fail = "render" THEN Fail("render", {})
      ELSE IF im.fail = "mkdir" THEN Fail("mkdir", {})
      ELSE IF im.fail = "save" THEN Fail("save", made)
      ELSE [outcome |-> "done", newdirs |-> made, out_path |-> out_path,
            out_rec |-> out_rec]

(***************************************************************************)
(* main.  arg is the parsed command line together with the font that       *)
(* load_font resolved: [color, position, font].                            *)
(***************************************************************************)
MaxDim == 3
DimUnit == 16

Base == <<"home", "photos">>
SubDir == Base \o <<"sub">>

DefaultColor == <<"#","F","F","F","F","F","F">>
HalfRed == <<"#","8","0","F","F","0","0","0","0">>
Fonts == {[cw |-> 1, ch |-> 2], [cw |-> 3, ch |-> 6]}
DefaultArgs ==
  [color |-> DefaultColor, position |-> "bottom-right", font |-> [cw |-> 1, ch |-> 2]]

Img(fmt, mode, w, h, dto, orient, infoExif, decodable, fail) ==
  [decodable |-> decodable, fmt |-> fmt, mode |-> mode, w |-> w, h |-> h,
   tags |-> [readable |-> TRUE, dto |-> dto, dt |-> None, orient |-> orient],
   infoExif |-> infoExif, fail |-> fail, wm |-> <<>>]

TextFile == Img("", "", 0, 0, None, 0, FALSE, FALSE, "none")

BatchImages ==
  {Img("JPEG", "RGB", 48, 32, Canonical, 1, TRUE, TRUE, "none"),
   Img("JPEG", "RGB", 48, 32, None, 0, FALSE, TRUE, "none"),
   Img("JPEG", "RGB", 48, 32, Canonical, 1, TRUE, FALSE, "none"),
   Img("JPEG", "RGB", 48, 32, Canonical, 1, TRUE, TRUE, "save"),
   Img("JPEG", "RGB", 48, 32, Canonical, 6, TRUE, TRUE, "none"),
   Img("PNG", "RGBA", 48, 32, Canonical, 0, TRUE, TRUE, "none")}

Dims == {DimUnit * k : k \in 1..MaxDim}

FileImages ==
  {Img(fmt, mode, w, h, dto, orient, infoExif, TRUE, fail) :
     fmt \in {"JPEG", "PNG", "TIFF"}, mode \in {"RGB", "RGBA"},
     w \in Dims, h \in {DimUnit, DimUnit * MaxDim},
     dto \in {None, Canonical}, orient \in 0..8,
     infoExif \in BOOLEAN, fail \in {"none", "render", "mkdir"}}

\* The raw exif block is present exactly when the file carries tags; a TIFF
\* keeps its tags elsewhere and may or may not expose the block.
InfoExifConsistent(im) ==
  IF im.fmt = "TIFF" THEN (im.infoExif => ~ExifEmpty(im.tags))
                     ELSE im.infoExif = ~ExifEmpty(im.tags)

RunReset ==
  /\ outRoot = <<>> /\ sourceRoot = <<>> /\ walkStack = <<>>
  /\ curFiles = {} /\ count = 0 /\ listed = {} /\ handed = <<>>
  /\ skipped = {} /\ saved = {} /\ errored = {} /\ written = {}
  /\ color_rgba = <<>>

InitDirRun ==
  /\ pc = "start" /\ runs = 1 /\ fn = "main" /\ ret = Pending
  /\ inputPath = Base
  /\ arg = DefaultArgs
  /\ dirs = {<<"home">>, Base, SubDir}
  /\ \E present \in SUBSET {Base \o <<"a.jpg">>, Base \o <<"b.PNG">>,
                             SubDir \o <<"a.jpg">>} :
       \E content \in [present -> BatchImages] :
         files = ((Base \o <<"n.txt">>) :> TextFile) @@ content
  /\ startFiles = files
  /\ RunReset

InitFileRun ==
  /\ pc = "start" /\ runs = 1 /\ fn = "main" /\ ret = Pending
  /\ inputPath = Base \o <<"a.jpg">>
  /\ arg \in [color : {DefaultColor, HalfRed}, position : Positions, font : Fonts]
  /\ dirs = {<<"home">>, Base}
  /\ \E im \in {i \in FileImages : InfoExifConsistent(i)} :
       files = (Base \o <<"a.jpg">>) :> im
  /\ startFiles = files
  /\ RunReset

InitMissing ==
  /\ pc = "start" /\ runs = 1 /\ fn = "main" /\ ret = Pending
  /\ inputPath = <<"home", "nowhere">>
  /\ arg = DefaultArgs
  /\ dirs = {<<"home">>, Base}
  /\ files = (Base \o <<"a.jpg">>) :> Img("JPEG", "RGB", 48, 32, Canonical, 1, TRUE, TRUE, "none")
  /\ startFiles = files
  /\ RunReset

Init == InitDirRun \/ InitFileRun \/ InitMissing

Exists(p) == p \in dirs \/ p \in DOMAIN files

\* The bookkeeping of one call of process_file on in_file.
Handle(in_file, r, made) ==
  /\ handed' = Append(handed, in_file)
  /\ dirs' = dirs \cup made \cup r.newdirs
  /\ files' = IF r.outcome = "done" THEN (r.out_path :> r.out_rec) @@ files
                                     ELSE files
  /\ written' = IF r.outcome = "done" THEN written \cup {r.out_path} ELSE written
  /\ saved' = IF r.outcome = "done" THEN saved \cup {<<in_file, r.out_path>>}
                                     ELSE saved
  /\ skipped' = IF r.outcome = "skip" THEN skipped \cup {in_file} ELSE skipped
  /\ errored' = IF r.outcome \in {"error", "raise"} THEN errored \cup {in_file}
                                                      ELSE errored

\* main, lines 227-230: the input path does not exist.
MainMissing ==
  /\ pc = "start" /\ ~Exists(inputPath)
  /\ pc' = "done"
  /\ UNCHANGED <<inputPath, files, dirs, outRoot, sourceRoot, walkStack,
                 curFiles, count, listed, handed, skipped, saved, errored,
                 written, startFiles, runs, color_rgba, fn, arg, ret>>

\* main, lines 232-239: a single file.
MainFile ==
  /\ pc = "start" /\ inputPath \in DOMAIN files
  /\ color_rgba' = parse_color(arg.color)
  /\ outRoot' = ensure_output_root(inputPath)
  /\ sourceRoot' = Parent(inputPath)
  /\ \E r \in {process_file(inputPath, outRoot', sourceRoot', arg.font,
                             color_rgba', arg.position)} :
       /\ Handle(inputPath, r, MkdirParents(outRoot'))
       /\ pc' = IF r.outcome = "raise" THEN "crashed" ELSE "done"
  /\ UNCHANGED <<inputPath, walkStack, curFiles, count, listed, startFiles,
                 runs, fn, arg, ret>>

\* main, lines 232-244: a directory; the walk is set up, nothing listed yet.
MainDir ==
  /\ pc = "start" /\ inputPath \in dirs
  /\ color_rgba' = parse_color(arg.color)
  /\ outRoot' = ensure_output_root(inputPath)
  /\ dirs' = dirs \cup MkdirParents(ensure_output_root(inputPath))
  /\ sourceRoot' = inputPath
  /\ count' = 0
  /\ walkStack' = <<{inputPath}>>
  /\ pc' = "walk"
  /\ UNCHANGED <<inputPath, files, curFiles, listed, handed, skipped, saved,
                 errored, written, startFiles, runs, fn, arg, ret>>

\* os.walk resumes: the next directory, depth first, is listed now.
WalkListDir ==
  /\ pc = "walk" /\ curFiles = {} /\ walkStack # <<>>
  /\ \E d \in Head(walkStack) :
       LET rest   == IF Head(walkStack) = {d} THEN Tail(walkStack)
                       ELSE <<Head(walkStack) \ {d}>> \o Tail(walkStack)
           subs   == walk_subdirs(d)
       IN  /\ walkStack' = IF subs = {} THEN rest ELSE <<subs>> \o rest
           /\ curFiles' = walk_images_files(d)
           /\ listed' = listed \cup walk_images_files(d)
  /\ UNCHANGED <<pc, inputPath, files, dirs, outRoot, sourceRoot, count, handed,
                 skipped, saved, errored, written, startFiles, runs,
                 color_rgba, fn, arg, ret>>

\* main, lines 244-246: one iteration of the loop.
ProcessNext ==
  /\ pc = "walk" /\ curFiles # {}
  /\ \E img_path \in curFiles :
       \E r \in {process_file(img_path, outRoot, sourceRoot, arg.font,
                               color_rgba, arg.position)} :
         /\ Handle(img_path, r, {})
         /\ curFiles' = curFiles \ {img_path}
         /\ count' = IF r.outcome = "raise" THEN count ELSE count + 1
         /\ pc' = IF r.outcome = "raise" THEN "crashed" ELSE "walk"
  /\ UNCHANGED <<inputPath, outRoot, sourceRoot, walkStack, listed, startFiles,
                 runs, color_rgba, fn, arg, ret>>

\* main, lines 247-248: the walk is exhausted.
MainFinish ==
  /\ pc = "walk" /\ curFiles = {} /\ walkStack = <<>>
  /\ pc' = "done"
  /\ UNCHANGED <<inputPath, files, dirs, outRoot, sourceRoot, walkStack,
                 curFiles, count, listed, handed, skipped, saved, errored,
                 written, startFiles, runs, color_rgba, fn, arg, ret>>

\* The tool is run again with the same command line on the tree as it is.
Rerun ==
  /\ pc = "done" /\ runs < MaxRuns
  /\ pc' = "start" /\ runs' = runs + 1
  /\ startFiles' = files
  /\ outRoot' = <<>> /\ sourceRoot' = <<>> /\ walkStack' = <<>>
  /\ curFiles' = {} /\ count' = 0 /\ listed' = {} /\ handed' = <<>>
  /\ skipped' = {} /\ saved' = {} /\ errored' = {} /\ written' = {}
  /\ color_rgba' = <<>>
  /\ UNCHANGED <<inputPath, files, dirs, fn, arg, ret>>

Next ==
  \/ MainMissing \/ MainFile \/ MainDir \/ WalkListDir \/ ProcessNext
  \/ MainFinish \/ Rerun

Spec == Init /\ [][Next]_vars

(***************************************************************************)
(* Properties of calc_position (SpecLayout).                               *)
(***************************************************************************)
Range(f) == {f[i] : i \in DOMAIN f}

Returned(f) == fn = f /\ ret # Pending

NonCenter == {"top-left", "top-right", "bottom-left", "bottom-right"}

\* C4 as stated: for the four non-center positions the anchor is at least
\* the margin in both coordinates, and whenever the text is no larger than
\* the image the anchor is at most the image size minus the margin.
C4_AnchorWhenTextFits ==
  (Returned("calc_position") /\ arg.pos \in NonCenter) =>
    /\ ret[1] >= arg.margin /\ ret[2] >= arg.margin
    /\ (arg.text_w <= arg.img_w /\ arg.text_h <= arg.img_h) =>
          (ret[1] <= arg.img_w - arg.margin /\ ret[2] <= arg.img_h - arg.margin)

\* C4 amended: for the four non-center positions the anchor is at least the
\* margin in both coordinates, and whenever the text fits in the image
\* together with the margin on both sides (textW + 2*margin <= imgW and
\* textH + 2*margin <= imgH) the anchor is at most the image size minus the
\* margin.
C4_AnchorWhenTextAndMarginsFit ==
  (Returned("calc_position") /\ arg.pos \in NonCenter) =>
    /\ ret[1] >= arg.margin /\ ret[2] >= arg.margin
    /\ (/\ arg.text_w + 2 * arg.margin <= arg.img_w
        /\ arg.text_h + 2 * arg.margin <= arg.img_h) =>
          (ret[1] <= arg.img_w - arg.margin /\ ret[2] <= arg.img_h - arg.margin)

C4_Witness ==
  /\ Returned("calc_position") /\ arg.pos = "bottom-right" /\ arg.margin > 0
  /\ arg.text_w + 2 * arg.margin <= arg.img_w
  /\ arg.text_h + 2 * arg.margin <= arg.img_h
  /\ ret[1] > arg.margin /\ ret[1] + arg.text_w = arg.img_w - arg.margin

\* C5 as stated: for center the anchor is half the size difference with
\* the quotient rounded towards zero, also when the text exceeds the image.
C5_CenterTruncated ==
  (Returned("calc_position") /\ arg.pos = "center") =>
    /\ ret[1] = TruncDiv(arg.img_w - arg.text_w, 2)
    /\ ret[2] = TruncDiv(arg.img_h - arg.text_h, 2)

\* C5 amended: for center the anchor is half the size difference with the
\* quotient rounded down (towards minus infinity), also when the text
\* exceeds the image; it is off the exact centre by less than one pixel.
C5_CenterFloored ==
  (Returned("calc_position") /\ arg.pos = "center") =>
    /\ 2 * ret[1] <= arg.img_w - arg.text_w
    /\ arg.img_w - arg.text_w <= 2 * ret[1] + 1
    /\ 2 * ret[2] <= arg.img_h - arg.text_h
    /\ arg.img_h - arg.text_h <= 2 * ret[2] + 1

C5_Witness ==
  /\ Returned("calc_position") /\ arg.pos = "center"
  /\ arg.img_w - arg.text_w < 0 /\ (arg.img_w - arg.text_w) % 2 = 1
  /\ ret[1] < 0

(***************************************************************************)
(* Properties of parse_color (SpecColor).                                  *)
(***************************************************************************)
\* C6: parse_color returns, for every input, a 4-tuple whose channels are
\* all integers in 0..255.
C6_ChannelsInRange ==
  Returned("parse_color") =>
    /\ Len(ret) = 4
    /\ \A i \in 1..4 : ret[i] \in 0..255

(***************************************************************************)
(* Properties of exif_date_text (SpecDate).                                *)
(***************************************************************************)
\* A non-negative decimal number: digits, possibly after a plus sign.
NonNegDecimal(f) ==
  LET g == IF f # <<>> /\ Head(f) = "+" THEN Tail(f) ELSE f
  IN  g # <<>> /\ \A i \in 1..Len(g) : g[i] \in {"0","1","2","3","4","5","6","7","8","9"}

DateFields(raw) == Split(Split(raw, " ")[1], ":")

Malformed(raw) ==
  \/ Len(DateFields(raw)) # 3
  \/ \E i \in 1..Len(DateFields(raw)) : ~NonNegDecimal(DateFields(raw)[i])

\* C7: when the raw DateTimeOriginal value is malformed (its date segment
\* does not have exactly three ':'-separated fields, or a field is not a
\* non-negative decimal number) exif_date_text returns no date.
C7_MalformedGivesNoDate ==
  (Returned("exif_date_text") /\ Truthy(arg.dto) /\ Malformed(arg.dto)) =>
    ret = None

(***************************************************************************)
(* Properties of main and process_file (Spec).                             *)
(***************************************************************************)
DirRun == inputPath \in dirs

\* The supported image files the input directory holds when the run starts.
StartImages ==
  {p \in DOMAIN startFiles :
     IsUnder(p, inputPath) /\ Lower(SuffixOf(Name(p))) \in SUPPORTED_EXTS}

HasDate(im) == Truthy(exif_date_text(im.tags))

Fails(im) == ~im.decodable \/ (HasDate(im) /\ im.fail # "none") \/ im.fail = "extract"

Mirror(p) == inputPath \o <<Name(inputPath) \o "_watermark">>
               \o SubSeq(p, Len(inputPath) + 1, Len(p))

\* C1: a run over a directory that holds N supported image files, k of them
\* with a parseable capture date and none failing, ends with N files handed
\* to process_file, N-k skip notices and exactly k files written, each at
\* the mirrored relative path under the output root.
C1_BatchCounts ==
  (pc = "done" /\ DirRun /\ \A p \in StartImages : ~Fails(startFiles[p])) =>
    /\ count = Cardinality(StartImages)
    /\ Cardinality(skipped) =
         Cardinality({p \in StartImages : ~HasDate(startFiles[p])})
    /\ written = {Mirror(p) : p \in {q \in StartImages : HasDate(startFiles[q])}}

\* C2: a failure at any stage of one file is caught inside process_file and
\* logged, and the loop goes on: when the run is over every file of every
\* directory the walk listed has been handed to process_file, every handed
\* file that fails is logged as an error, and every handed file that has a
\* date and does not fail has its output on disk.
C2_FailureIsolation ==
  /\ pc # "crashed"
  /\ (pc = "done" /\ DirRun) => listed = Range(handed)
  /\ \A f \in Range(handed) :
       /\ Fails(files[f]) => f \in errored
       /\ (HasDate(files[f]) /\ ~Fails(files[f])) =>
            \E o \in DOMAIN files : <<f, o>> \in saved

C2_Witness ==
  /\ pc = "done" /\ DirRun
  /\ \E i, j \in 1..Len(handed) :
       /\ i < j
       /\ handed[i] \in errored
       /\ files[handed[i]].decodable /\ files[handed[i]].fail = "save"
       /\ \E o \in DOMAIN files : <<handed[j], o>> \in saved

\* C3 as stated: the output root is named <inputDirName>_watermark and is a
\* sibling of the input directory (of the file's parent for a single file),
\* hence outside the tree that is walked.
C3_OutputRootIsSibling ==
  outRoot # <<>> =>
    /\ Name(outRoot) = Name(sourceRoot) \o "_watermark"
    /\ Parent(outRoot) = Parent(sourceRoot)
    /\ ~IsUnder(outRoot, sourceRoot)

\* C3 amended: the output root is a directory named <baseName>_watermark
\* that is a child of the base directory, the base directory being the
\* input directory itself, or the parent of a single input file; for a
\* directory input it therefore lies inside the tree that walk_images
\* traverses.
C3_OutputRootIsChild ==
  outRoot # <<>> =>
    /\ outRoot \in dirs
    /\ DirRun => (/\ Parent(outRoot) = inputPath
                  /\ Name(outRoot) = Name(inputPath) \o "_watermark"
                  /\ IsUnder(outRoot, inputPath))
    /\ inputPath \in DOMAIN files =>
         (/\ Parent(outRoot) = Parent(inputPath)
          /\ Name(outRoot) = Name(Parent(inputPath)) \o "_watermark")

C3_Witness ==
  /\ pc = "walk" /\ DirRun
  /\ outRoot = <<"home", "photos", "photos_watermark">>
  /\ outRoot \in dirs

\* C8 as stated: the file saved for a JPEG input has exactly the width and
\* height of the decoded input, whatever its orientation value.
C8_DimensionsPreserved ==
  \A io \in saved :
    files[io[1]].fmt = "JPEG" =>
      /\ files[io[2]].w = files[io[1]].w
      /\ files[io[2]].h = files[io[1]].h

\* C8 amended: the file saved for a JPEG input has the width and height of
\* the decoded input when the orientation value is absent or 1..4, and has
\* them exchanged (width = input height, height = input width) when the
\* orientation value is 5..8.
C8_DimensionsUpToTranspose ==
  \A io \in saved :
    files[io[1]].fmt = "JPEG" =>
      IF files[io[1]].tags.orient \in 5..8
        THEN files[io[2]].w = files[io[1]].h /\ files[io[2]].h = files[io[1]].w
        ELSE files[io[2]].w = files[io[1]].w /\ files[io[2]].h = files[io[1]].h

C8_Witness ==
  \E io \in saved :
    /\ files[io[1]].fmt = "JPEG"
    /\ files[io[1]].tags.orient = 6
    /\ files[io[1]].w # files[io[1]].h
    /\ files[io[2]].w = files[io[1]].h
    /\ files[io[2]].wm # <<>>

\* C9: a saved JPEG or TIFF that carries the original metadata carries no
\* orientation value other than normal (absent or 1).
C9_OrientationNotReattached ==
  \A io \in saved :
    files[io[2]].fmt \in {"JPEG", "TIFF"} => files[io[2]].tags.orient \in {0, 1}

\* C10: within a run, no path written by process_file is a path that the
\* walk yields as an input.
C10_WrittenDisjointFromInputs ==
  written \cap (Range(handed) \cup listed) = {}

====
